---- MODULE Spec2Model ----
(***************************************************************************)
(* Course curriculum consumption engine of the e-learning front end:       *)
(*   - useCourseLogic / CourseDetail  (navigation state machine)           *)
(*   - QuizModule                     (quiz answer / submission machine)   *)
(*   - useArchivedCourses             (archived listing fetch cycle)       *)
(* A React state setter is an assignment to the primed variable; one       *)
(* action is one event handler (or one effect run, or one promise          *)
(* continuation) together with the re-render React performs before the     *)
(* next event is handled.                                                  *)
(***************************************************************************)
EXTENDS Integers, Sequences, FiniteSets, TLC

VARIABLES
    \* ---- useCourseLogic (CourseDetail.tsx 64-126) ----
    phase,              \* "constructed" | "mounted" | "unmounted"
    id,                 \* route parameter of useParams()
    course,             \* _id of the course snapshot held, or Null
    loading,
    error,
    activeLesson,       \* _id of the lesson object held, or Null
    expandedSections,   \* Set<string> of section _id
    loads,              \* load() calls suspended at `await fetchCourseById`
    navCount,           \* number of effect runs so far
    \* ---- CourseDetail / QuizModule local state ----
    activeTab,
    answers,            \* Record<number, number>
    submitted,          \* keys q with submitted[q] === true
    \* ---- useArchivedCourses (InactiveCourses.tsx 21-90) ----
    listPhase,          \* "constructed" | "mounted"
    courses,            \* data.courses as held, a sequence of course _ids
    listLoading,
    listError,
    searchTerm,
    isFiltering,
    requests,           \* every api.get issued, in issue order, with its status
    \* ---- derivation layer (processedCourses, course cards, sidebar) ----
    snapshot,           \* the course object the derivations are given
    derived,            \* what the view last rendered from it
    \* ---- useCourseListing (ActivrCourse.tsx 21-74) and the CourseContext ----
    activePhase,        \* "constructed" | "mounted"
    ctxCourses,         \* courses of the context, a sequence of course _ids
    ctxLoading,         \* loading of the context
    ctxError,           \* error of the context
    activeSearchTerm,
    activeIsFiltering,
    calls,              \* every fetchCourses call, in call order, with its status
    \* ---- CertificatesPage (CertificatesPage.tsx 55-80) ----
    certPhase,          \* "constructed" | "mounted"
    pageStatus,         \* "Active" | "Inactive", from location.pathname
    certificates,       \* the list held, a sequence of certificate _ids
    certLoading,
    certRequests        \* every api.get issued, in issue order, with its stage

navVars  == <<phase, id, course, loading, error, activeLesson, expandedSections, loads, navCount>>
quizVars == <<activeTab, answers, submitted>>
listVars == <<listPhase, courses, listLoading, listError, searchTerm, isFiltering, requests>>
deriveVars == <<snapshot, derived>>
activeVars == <<activePhase, ctxCourses, ctxLoading, ctxError, activeSearchTerm,
                activeIsFiltering, calls>>
certVars == <<certPhase, pageStatus, certificates, certLoading, certRequests>>
vars     == <<navVars, quizVars, listVars, deriveVars, activeVars, certVars>>

Null == "null"
Undefined == "undefined"

----------------------------------------------------------------------------
\* Bounds of the model

\* effect runs (mount + route changes) of one CourseDetail instance
MaxNavigations == 3
\* api.get calls of one archived-listing session
MaxFetches == 3

----------------------------------------------------------------------------
\* Course snapshots the collaborator serves (shape of Course.js / the TS interfaces)

CourseIds == {"c1", "c2", "c3"}

\* course.sections, as the sequence of section _id
Sections(c) ==
    CASE c = "c1" -> <<"A", "B">>
      [] c = "c2" -> <<"C", "D">>
      [] OTHER    -> << >>

\* section.lessons, as the sequence of lesson _id
Lessons(s) ==
    CASE s = "A" -> <<"L1", "L2">>
      [] s = "B" -> <<"L3">>
      [] s = "D" -> <<"L4">>
      [] OTHER   -> << >>

\* lesson.quizzes: each quiz is the sequence of its options' isCorrect flags
Quizzes(l) ==
    CASE l = "L1" -> << <<FALSE, TRUE, FALSE>>, <<TRUE, TRUE>> >>
      [] l = "L2" -> << <<TRUE, FALSE>> >>
      [] l = "L4" -> << <<FALSE, FALSE>> >>
      [] OTHER    -> << >>

\* lesson.videoKey, "" when the lesson carries none
VideoKey(l) ==
    CASE l = "L1" -> "yt-L1"
      [] l = "L3" -> "yt-L3"
      [] OTHER    -> ""

SeqRange(s) == {s[i] : i \in 1..Len(s)}

SectionIds(c) == SeqRange(Sections(c))
LessonIds(c) == UNION {SeqRange(Lessons(s)) : s \in SectionIds(c)}
AllSectionIds == UNION {SectionIds(c) : c \in CourseIds}
AllLessonIds == UNION {LessonIds(c) : c \in CourseIds}

\* values the route parameter takes: known courses, an id the collaborator
\* does not know, and no id at all
RouteIds == CourseIds \cup {"zz", Undefined}

----------------------------------------------------------------------------
\* What CourseDetail renders (CourseDetail.tsx 317-330, 417, 451-453)

\* neither the skeleton (317) nor the error view (319) is returned
Displayed ==
    /\ phase = "mounted"
    /\ ~loading
    /\ error = Null
    /\ course # Null

\* what CourseDetail renders (317-327): the skeleton while loading, the error
\* view when error is set or no course is held, the course otherwise
DetailShown ==
    IF loading THEN "loading"
    ELSE IF error # Null \/ course = Null THEN "error"
    ELSE "course"

\* the video area of the displayed course (365-379): the iframe when
\* `activeLesson?.videoKey` is truthy, the placeholder otherwise
Player ==
    IF activeLesson # Null /\ VideoKey(activeLesson) # "" THEN "iframe" ELSE "placeholder"

\* the <QuizModule> element exists in the rendered tree
QuizMounted ==
    /\ Displayed
    /\ activeTab = "overview"
    /\ activeLesson # Null
    /\ Len(Quizzes(activeLesson)) > 0

\* React keeps the state of a component that stays at the same place of the
\* tree with the same type, and drops it when the element disappears. The
\* <QuizModule> element carries no key.
QuizReconcile ==
    IF QuizMounted /\ QuizMounted'
    THEN UNCHANGED <<answers, submitted>>
    ELSE answers' = << >> /\ submitted' = {}

----------------------------------------------------------------------------
\* useCourseLogic

\* the effect's cleanup: `isMounted = false` in every earlier closure
Cleanup(ls) == {[r EXCEPT !.isMounted = FALSE] : r \in ls}

\* the effect (74-103) for route parameter i: cleanup of the previous run,
\* then load() up to its first await
RunEffect(i) ==
    /\ id' = i
    /\ navCount' = navCount + 1
    /\ IF i = Undefined
       THEN /\ error' = "Failed to load course."
            /\ loading' = FALSE
            /\ loads' = Cleanup(loads)
       ELSE /\ loading' = TRUE
            /\ loads' = Cleanup(loads) \cup {[n |-> navCount + 1, id |-> i, isMounted |-> TRUE]}
            /\ UNCHANGED error
    /\ UNCHANGED <<course, activeLesson, expandedSections>>

\* first render of the component and its effect
Mount(i) ==
    /\ phase = "constructed"
    /\ phase' = "mounted"
    /\ RunEffect(i)
    /\ UNCHANGED <<activeTab, listVars, deriveVars, activeVars, certVars>>
    /\ QuizReconcile

\* the route's :id changes while the same CourseDetail instance stays mounted
\* (the effect's dependency list is [id, fetchCourseById]; fetchCourseById
\* comes from CourseContext and is taken to keep its identity)
Navigate(i) ==
    /\ phase = "mounted"
    /\ i # id
    /\ navCount < MaxNavigations
    /\ UNCHANGED phase
    /\ RunEffect(i)
    /\ UNCHANGED <<activeTab, listVars, deriveVars, activeVars, certVars>>
    /\ QuizReconcile

Unmount ==
    /\ phase = "mounted"
    /\ phase' = "unmounted"
    /\ loads' = Cleanup(loads)
    /\ UNCHANGED <<id, course, loading, error, activeLesson, expandedSections, navCount>>
    /\ UNCHANGED <<activeTab, listVars, deriveVars, activeVars, certVars>>
    /\ QuizReconcile

\* lines 85-87: the expanded set after a successful load of `data`
\* variant: every section of the course is expanded
InitialExpandedAll(data, prev) ==
    IF Len(Sections(data)) > 0 THEN SectionIds(data) ELSE prev

InitialExpanded(data, prev) ==
    IF Len(Sections(data)) > 0 THEN {Sections(data)[1]} ELSE prev

\* variant: setActiveLesson(firstSection.lessons[0] ?? null), also without lessons
InitialLessonOrNull(data, prev) ==
    IF Len(Sections(data)) > 0
    THEN IF Len(Lessons(Sections(data)[1])) > 0 THEN Lessons(Sections(data)[1])[1] ELSE Null
    ELSE prev

\* lines 85-90: the active lesson after a successful load of `data`
InitialLesson(data, prev) ==
    IF Len(Sections(data)) > 0 /\ Len(Lessons(Sections(data)[1])) > 0
    THEN Lessons(Sections(data)[1])[1]
    ELSE prev

\* what fetchCourseById(id) can settle with: the course, no course, a
\* rejection without a message, a rejection whose payload carries a message
Outcomes(i) ==
    (IF i \in CourseIds THEN {"data"} ELSE {}) \cup {"null", "reject", "rejectMessage"}

\* the continuation of load() after `await fetchCourseById(id)` (82-99)
LoadResolve(r, outcome) ==
    /\ r \in loads
    /\ outcome \in Outcomes(r.id)
    /\ loads' = loads \ {r}
    /\ IF ~r.isMounted
       THEN UNCHANGED <<course, loading, error, activeLesson, expandedSections>>
       ELSE /\ loading' = FALSE
            /\ IF outcome = "data"
               THEN /\ course' = r.id
                    /\ expandedSections' = InitialExpanded(r.id, expandedSections)
                    /\ activeLesson' = InitialLesson(r.id, activeLesson)
                    /\ UNCHANGED error
               ELSE /\ error' = IF outcome = "null" THEN "Course not found."
                                                   ELSE "Failed to load course."
                    /\ UNCHANGED <<course, activeLesson, expandedSections>>
    /\ UNCHANGED <<phase, id, navCount, activeTab, listVars, deriveVars, activeVars, certVars>>
    /\ QuizReconcile

\* variant: an accordion, opening a section closes the others
toggleAccordion(prev, sectionId) ==
    IF sectionId \in prev THEN prev \ {sectionId} ELSE {sectionId}

\* variant: the delete branch is missing
toggleAddOnly(prev, sectionId) == prev \cup {sectionId}

\* the updater passed to setExpandedSections (106-111)
toggle(prev, sectionId) ==
    IF sectionId \in prev THEN prev \ {sectionId} ELSE prev \cup {sectionId}

\* toggleSection (105-112), called from the sidebar's section header (491).
\* A click is a discrete event: React renders its update before the next
\* event is handled, so the step is atomic.
ToggleSection(sectionId) ==
    /\ Displayed
    /\ sectionId \in SectionIds(course)
    /\ expandedSections' = toggle(expandedSections, sectionId)
    /\ UNCHANGED <<phase, id, course, loading, error, activeLesson, loads, navCount>>
    /\ UNCHANGED <<activeTab, listVars, deriveVars, activeVars, certVars>>
    /\ QuizReconcile

\* variant: a lesson without a video key is reported as an error
selectLessonVideoRequired(lesson) ==
    /\ activeLesson' = lesson
    /\ error' = IF VideoKey(lesson) = "" THEN "Video unavailable." ELSE error
    /\ UNCHANGED <<phase, id, course, loading, expandedSections, loads, navCount>>

\* variant: only a lesson of the held course, in an expanded section, is taken
selectLessonChecked(lesson) ==
    /\ \E sectionId \in SectionIds(course) \cap expandedSections :
            lesson \in SeqRange(Lessons(sectionId))
    /\ activeLesson' = lesson
    /\ UNCHANGED <<phase, id, course, loading, error, expandedSections, loads, navCount>>

\* selectLesson (114-117), the callback the hook returns: setActiveLesson(lesson)
selectLesson(lesson) ==
    /\ activeLesson' = lesson
    /\ UNCHANGED <<phase, id, course, loading, error, expandedSections, loads, navCount>>

\* a click on a LessonItem of the sidebar (517: the lessons of an expanded
\* section) or of the mobile drawer (563: every lesson of the course)
SelectLesson(lesson) ==
    /\ Displayed
    /\ lesson \in LessonIds(course)
    /\ selectLesson(lesson)
    /\ UNCHANGED <<activeTab, listVars, deriveVars, activeVars, certVars>>
    /\ QuizReconcile

\* the tab buttons (400-412)
Tabs == {"overview", "qa", "notes"}

SetActiveTab(tab) ==
    /\ Displayed
    /\ tab \in Tabs
    /\ activeTab' = tab
    /\ UNCHANGED <<navVars, listVars, deriveVars, activeVars, certVars>>
    /\ QuizReconcile

----------------------------------------------------------------------------
\* QuizModule (186-253)

\* the questions rendered: indices of activeLesson.quizzes (201)
Questions == 0 .. (Len(Quizzes(activeLesson)) - 1)

\* the option buttons rendered for question qIdx (213)
Options(qIdx) == 0 .. (Len(Quizzes(activeLesson)[qIdx + 1]) - 1)

\* quiz.options[oIdx].isCorrect of question qIdx
OptionFlag(qIdx, oIdx) == Quizzes(activeLesson)[qIdx + 1][oIdx + 1]

\* isCorrect (202-204): `isSub && quiz.options[selected]?.isCorrect`, as
\* "true", "false" or undefined (not submitted, or `selected` names no option
\* of this question)
Grade(qIdx) ==
    IF qIdx \notin submitted THEN Undefined
    ELSE IF qIdx \in DOMAIN answers /\ answers[qIdx] \in Options(qIdx)
         THEN (IF OptionFlag(qIdx, answers[qIdx]) THEN "true" ELSE "false")
         ELSE Undefined

\* `selected === oIdx` (202, 217): answers[qIdx] is undefined until an option
\* is selected
IsSelected(qIdx, oIdx) == qIdx \in DOMAIN answers /\ answers[qIdx] = oIdx

\* variant: the correct options are marked before the question is submitted
renderOptionRevealing(isSub, isSelected, flag) ==
    [style |-> IF flag THEN "emerald"
               ELSE IF isSelected THEN (IF isSub THEN "rose" ELSE "violet")
               ELSE "slate",
     icon  |-> IF flag THEN "CheckCircle2"
               ELSE IF isSub /\ isSelected THEN "XCircle"
               ELSE "none"]

\* what an option button shows (214-231): the style chosen by 214-220 and the
\* icon of 230-231, from isSub, `selected === oIdx` and opt.isCorrect
renderOption(isSub, isSelected, flag) ==
    [style |-> IF isSub
               THEN (IF flag THEN "emerald"
                     ELSE IF isSelected /\ ~flag THEN "rose"
                     ELSE "slate")
               ELSE IF isSelected THEN "violet"
               ELSE "slate",
     icon  |-> IF isSub /\ flag THEN "CheckCircle2"
               ELSE IF isSub /\ isSelected /\ ~flag THEN "XCircle"
               ELSE "none"]

\* the button of option oIdx of question qIdx as the render shows it
OptionView(qIdx, oIdx) ==
    renderOption(qIdx \in submitted, IsSelected(qIdx, oIdx), OptionFlag(qIdx, oIdx))

\* { ...prev, [qIdx]: oIdx }
Put(prev, qIdx, oIdx) ==
    [p \in (DOMAIN prev) \cup {qIdx} |-> IF p = qIdx THEN oIdx ELSE prev[p]]

\* variant: no `!submitted[qIdx]` guard
handleSelectUnguarded(qIdx, oIdx) ==
    /\ QuizMounted
    /\ qIdx \in Questions
    /\ oIdx \in Options(qIdx)
    /\ answers' = Put(answers, qIdx, oIdx)
    /\ UNCHANGED <<submitted, activeTab, navVars, listVars, deriveVars, activeVars, certVars>>

\* variant: the first choice is kept, { [qIdx]: oIdx, ...prev }
handleSelectKeepFirst(qIdx, oIdx) ==
    /\ QuizMounted
    /\ qIdx \in Questions
    /\ oIdx \in Options(qIdx)
    /\ IF qIdx \notin submitted /\ qIdx \notin DOMAIN answers
       THEN answers' = Put(answers, qIdx, oIdx)
       ELSE UNCHANGED answers
    /\ UNCHANGED <<submitted, activeTab, navVars, listVars, deriveVars, activeVars, certVars>>

\* handleSelect (190-192), the onClick of an option button (225)
handleSelect(qIdx, oIdx) ==
    /\ QuizMounted
    /\ qIdx \in Questions
    /\ oIdx \in Options(qIdx)
    /\ IF qIdx \notin submitted
       THEN answers' = Put(answers, qIdx, oIdx)
       ELSE UNCHANGED answers
    /\ UNCHANGED <<submitted, activeTab, navVars, listVars, deriveVars, activeVars, certVars>>

\* variant: one submit for the whole quiz, every answered question is submitted
SubmitAnswerWholeQuiz(qIdx) ==
    /\ QuizMounted
    /\ qIdx \in Questions
    /\ IF qIdx \notin submitted /\ qIdx \in DOMAIN answers
       THEN submitted' = submitted \cup (Questions \cap DOMAIN answers)
       ELSE UNCHANGED submitted
    /\ UNCHANGED <<answers, activeTab, navVars, listVars, deriveVars, activeVars, certVars>>

\* variant: the button is never disabled
SubmitAnswerAlways(qIdx) ==
    /\ QuizMounted
    /\ qIdx \in Questions
    /\ submitted' = submitted \cup {qIdx}
    /\ UNCHANGED <<answers, activeTab, navVars, listVars, deriveVars, activeVars, certVars>>

\* the "Submit Answer" button (236-246): rendered while the question is not
\* submitted, disabled while no option is selected; a click on a button that
\* is absent or disabled dispatches nothing
SubmitAnswer(qIdx) ==
    /\ QuizMounted
    /\ qIdx \in Questions
    /\ IF qIdx \notin submitted /\ qIdx \in DOMAIN answers
       THEN submitted' = submitted \cup {qIdx}
       ELSE UNCHANGED submitted
    /\ UNCHANGED <<answers, activeTab, navVars, listVars, deriveVars, activeVars, certVars>>

----------------------------------------------------------------------------
\* useArchivedCourses (InactiveCourses.tsx 21-90)

\* texts the search box can hold
SearchTexts == {"", "go", "rust", "cobol"}

\* data.courses of GET /courses?status=Inactive&keyword=k, as course _ids
Result(keyword) ==
    CASE keyword = ""     -> <<"go101", "rust101">>
      [] keyword = "go"   -> <<"go101">>
      [] keyword = "rust" -> <<"rust101">>
      [] OTHER            -> << >>

Pending == {i \in 1..Len(requests) : requests[i].status = "pending"}

\* fetchArchivedCourses (28-40) up to `await api.get`
fetchArchivedCourses(keyword) ==
    /\ Len(requests) < MaxFetches
    /\ listLoading' = TRUE
    /\ requests' = Append(requests, [keyword |-> keyword, status |-> "pending"])

\* variant: the initial-load effect runs on two renders
ListMountTwice ==
    /\ listPhase = "constructed"
    /\ listPhase' = "mounted"
    /\ listLoading' = TRUE
    /\ requests' = <<[keyword |-> "", status |-> "pending"],
                     [keyword |-> "", status |-> "pending"]>>
    /\ UNCHANGED <<courses, listError, searchTerm, isFiltering>>
    /\ UNCHANGED <<navVars, quizVars, deriveVars, activeVars, certVars>>

\* first render and the initial-load effect (43-45)
ListMount ==
    /\ listPhase = "constructed"
    /\ listPhase' = "mounted"
    /\ fetchArchivedCourses("")
    /\ UNCHANGED <<courses, listError, searchTerm, isFiltering>>
    /\ UNCHANGED <<navVars, quizVars, deriveVars, activeVars, certVars>>

\* onChange of the search input (116): setSearchTerm
SetSearchTerm(text) ==
    /\ listPhase = "mounted"
    /\ text \in SearchTexts
    /\ text # searchTerm
    /\ searchTerm' = text
    /\ UNCHANGED <<listPhase, courses, listLoading, listError, isFiltering, requests>>
    /\ UNCHANGED <<navVars, quizVars, deriveVars, activeVars, certVars>>

Keys == {"Enter", "a"}

\* handleSearch (48-53), the onKeyDown of the search input
handleSearch(key) ==
    /\ listPhase = "mounted"
    /\ key \in Keys
    /\ IF key = "Enter"
       THEN /\ isFiltering' = TRUE
            /\ fetchArchivedCourses(searchTerm)
       ELSE UNCHANGED <<isFiltering, listLoading, requests>>
    /\ UNCHANGED <<listPhase, courses, listError, searchTerm>>
    /\ UNCHANGED <<navVars, quizVars, deriveVars, activeVars, certVars>>

\* variant: the fetch is made with the keyword of the render's closure
clearFiltersStaleKeyword ==
    /\ listPhase = "mounted"
    /\ searchTerm' = ""
    /\ fetchArchivedCourses(searchTerm)
    /\ UNCHANGED <<listPhase, courses, listError, isFiltering>>
    /\ UNCHANGED <<navVars, quizVars, deriveVars, activeVars, certVars>>

\* clearFilters (55-58); the hook returns it, the archive's EmptyState does
\* not render the button that would call it (168-171)
clearFilters ==
    /\ listPhase = "mounted"
    /\ searchTerm' = ""
    /\ fetchArchivedCourses("")
    /\ UNCHANGED <<listPhase, courses, listError, isFiltering>>
    /\ UNCHANGED <<navVars, quizVars, deriveVars, activeVars, certVars>>

\* the ErrorState view is what the page shows (197-200)
ListErrorShown ==
    /\ listPhase = "mounted"
    /\ ~(listLoading \/ isFiltering)
    /\ listError # Null

\* retry (88), the onClick of "Try Again" (156)
retry ==
    /\ ListErrorShown
    /\ fetchArchivedCourses(searchTerm)
    /\ UNCHANGED <<listPhase, courses, listError, searchTerm, isFiltering>>
    /\ UNCHANGED <<navVars, quizVars, deriveVars, activeVars, certVars>>

\* how api.get settles: a response, a failure whose payload carries a
\* message, a failure without one (no response, or a payload without message)
Settlements == {"ok", "message", "nomessage"}

\* err.response.data.message of a failure that carries one
PayloadMessage == "Server error"

\* variant: the payload's message is not read
ErrorMessageGeneric(settlement) == "Failed to load archived courses"

\* line 35
ErrorMessage(settlement) ==
    IF settlement = "message" THEN PayloadMessage ELSE "Failed to load archived courses"

\* variant: the catch block sets no state
FetchSettleSwallows(i, settlement) ==
    /\ i \in Pending
    /\ settlement \in Settlements
    /\ requests' = [requests EXCEPT ![i].status = IF settlement = "ok" THEN "ok" ELSE "failed"]
    /\ IF settlement = "ok"
       THEN /\ courses' = Result(requests[i].keyword)
            /\ listError' = Null
       ELSE UNCHANGED <<listError, courses>>
    /\ listLoading' = FALSE
    /\ isFiltering' = FALSE
    /\ UNCHANGED <<listPhase, searchTerm>>
    /\ UNCHANGED <<navVars, quizVars, deriveVars, activeVars, certVars>>

\* variant: a failure also empties the list
FetchSettleClearsOnFailure(i, settlement) ==
    /\ i \in Pending
    /\ settlement \in Settlements
    /\ requests' = [requests EXCEPT ![i].status = IF settlement = "ok" THEN "ok" ELSE "failed"]
    /\ IF settlement = "ok"
       THEN /\ courses' = Result(requests[i].keyword)
            /\ listError' = Null
       ELSE /\ listError' = ErrorMessage(settlement)
            /\ courses' = << >>
    /\ listLoading' = FALSE
    /\ isFiltering' = FALSE
    /\ UNCHANGED <<listPhase, searchTerm>>
    /\ UNCHANGED <<navVars, quizVars, deriveVars, activeVars, certVars>>

\* variant: the flags are reset after the response is stored, not in a
\* finally block
FetchSettleNoFinally(i, settlement) ==
    /\ i \in Pending
    /\ settlement \in Settlements
    /\ requests' = [requests EXCEPT ![i].status = IF settlement = "ok" THEN "ok" ELSE "failed"]
    /\ IF settlement = "ok"
       THEN /\ courses' = Result(requests[i].keyword)
            /\ listError' = Null
            /\ listLoading' = FALSE
            /\ isFiltering' = FALSE
       ELSE /\ listError' = ErrorMessage(settlement)
            /\ UNCHANGED <<courses, listLoading, isFiltering>>
    /\ UNCHANGED <<listPhase, searchTerm>>
    /\ UNCHANGED <<navVars, quizVars, deriveVars, activeVars, certVars>>

\* the continuation of fetchArchivedCourses after `await api.get` (31-39)
FetchSettle(i, settlement) ==
    /\ i \in Pending
    /\ settlement \in Settlements
    /\ requests' = [requests EXCEPT ![i].status = IF settlement = "ok" THEN "ok" ELSE "failed"]
    /\ IF settlement = "ok"
       THEN /\ courses' = Result(requests[i].keyword)
            /\ listError' = Null
       ELSE /\ listError' = ErrorMessage(settlement)
            /\ UNCHANGED courses
    /\ listLoading' = FALSE
    /\ isFiltering' = FALSE
    /\ UNCHANGED <<listPhase, searchTerm>>
    /\ UNCHANGED <<navVars, quizVars, deriveVars, activeVars, certVars>>

----------------------------------------------------------------------------
\* useCourseListing and the ActiveCourses page (ActivrCourse.tsx 21-74,
\* 186-216). The hook takes courses, loading, error and fetchCourses from the
\* CourseContext, whose implementation lies outside the files modelled; the
\* context is modelled by its contract: fetchCourses(keyword) returns a
\* promise that settles once, and the context publishes what the call found.

\* useState initial values (23-24) and a context that has fetched nothing
InitActiveListing ==
    /\ activePhase = "constructed"
    /\ ctxCourses = << >>
    /\ ctxLoading = FALSE
    /\ ctxError = Null
    /\ activeSearchTerm = ""
    /\ activeIsFiltering = FALSE
    /\ calls = << >>

PendingCalls == {i \in 1..Len(calls) : calls[i].status = "pending"}

\* fetchCourses(keyword) of the context, up to the point where its promise is
\* pending; `awaited` tells whether the caller continues after it
fetchCourses(keyword, awaited) ==
    /\ Len(calls) < MaxFetches
    /\ ctxLoading' = TRUE
    /\ calls' = Append(calls, [keyword |-> keyword, awaited |-> awaited,
                               status |-> "pending"])

\* what the page's content area shows (203-216)
ActiveShown ==
    IF ctxLoading \/ activeIsFiltering THEN "loading"
    ELSE IF ctxError # Null THEN "error"
    ELSE IF Len(ctxCourses) = 0 THEN "empty"
    ELSE "courses"

\* first render and the initial-load effect (27-29)
ActiveMount ==
    /\ activePhase = "constructed"
    /\ activePhase' = "mounted"
    /\ fetchCourses("", FALSE)
    /\ UNCHANGED <<ctxCourses, ctxError, activeSearchTerm, activeIsFiltering>>
    /\ UNCHANGED <<navVars, quizVars, listVars, deriveVars, certVars>>

\* onSearchChange of the PageHeader (199): setSearchTerm
ActiveSetSearchTerm(text) ==
    /\ activePhase = "mounted"
    /\ text \in SearchTexts
    /\ text # activeSearchTerm
    /\ activeSearchTerm' = text
    /\ UNCHANGED <<activePhase, ctxCourses, ctxLoading, ctxError, activeIsFiltering, calls>>
    /\ UNCHANGED <<navVars, quizVars, listVars, deriveVars, certVars>>

\* handleSearch (32-38) up to `await fetchCourses(searchTerm)`
ActiveHandleSearch(key) ==
    /\ activePhase = "mounted"
    /\ key \in Keys
    /\ IF key = "Enter"
       THEN /\ activeIsFiltering' = TRUE
            /\ fetchCourses(activeSearchTerm, TRUE)
       ELSE UNCHANGED <<activeIsFiltering, ctxLoading, calls>>
    /\ UNCHANGED <<activePhase, ctxCourses, ctxError, activeSearchTerm>>
    /\ UNCHANGED <<navVars, quizVars, listVars, deriveVars, certVars>>

\* clearFilters (40-43), the onClear of the EmptyState (212)
ActiveClearFilters ==
    /\ activePhase = "mounted"
    /\ ActiveShown = "empty"
    /\ activeSearchTerm' = ""
    /\ fetchCourses("", FALSE)
    /\ UNCHANGED <<activePhase, ctxCourses, ctxError, activeIsFiltering>>
    /\ UNCHANGED <<navVars, quizVars, listVars, deriveVars, certVars>>

\* onRetry of the ErrorState (210): fetchCourses()
ActiveRetry ==
    /\ activePhase = "mounted"
    /\ ActiveShown = "error"
    /\ fetchCourses("", FALSE)
    /\ UNCHANGED <<activePhase, ctxCourses, ctxError, activeSearchTerm, activeIsFiltering>>
    /\ UNCHANGED <<navVars, quizVars, listVars, deriveVars, certVars>>

\* how a fetchCourses promise settles: it resolves with the courses found, it
\* resolves after the context has recorded a failure, or it rejects
CallOutcomes == {"resolved", "caught", "rejected"}

\* what the context publishes when a call settles
ContextSettle(i, outcome) ==
    /\ calls' = [calls EXCEPT ![i].status = outcome]
    /\ ctxLoading' = FALSE
    /\ IF outcome = "resolved"
       THEN /\ ctxCourses' = Result(calls[i].keyword)
            /\ ctxError' = Null
       ELSE /\ ctxError' = PayloadMessage
            /\ UNCHANGED ctxCourses

\* handleSearch after the await (36): the statement runs when the promise
\* resolved; a rejection leaves the async function at the await
handleSearchResume(i, outcome) ==
    IF calls[i].awaited /\ outcome # "rejected"
    THEN activeIsFiltering' = FALSE
    ELSE UNCHANGED activeIsFiltering

\* a fetchCourses promise settles and its awaiting caller continues
FetchCoursesSettle(i, outcome) ==
    /\ i \in PendingCalls
    /\ outcome \in CallOutcomes
    /\ ContextSettle(i, outcome)
    /\ handleSearchResume(i, outcome)
    /\ UNCHANGED <<activePhase, activeSearchTerm>>
    /\ UNCHANGED <<navVars, quizVars, listVars, deriveVars, certVars>>

----------------------------------------------------------------------------
\* CertificatesPage (CertificatesPage.tsx 55-80): the list of certificates of
\* the page status, fetched anew by an effect whenever the status changes

\* useState initial values (61-62)
InitCertificatesPage ==
    /\ certPhase = "constructed"
    /\ pageStatus = "Active"
    /\ certificates = << >>
    /\ certLoading = TRUE
    /\ certRequests = << >>

\* pageStatus (58-59)
PageStatuses == {"Active", "Inactive"}

\* data of GET /certificates?status=s, as certificate _ids
CertResult(status) ==
    IF status = "Active" THEN <<"cert-a1", "cert-a2">> ELSE <<"cert-i1">>

\* fetchCertificates (66-69) up to `await api.get`, with the pageStatus of the
\* render whose effect calls it
fetchCertificates(status) ==
    /\ Len(certRequests) < MaxFetches
    /\ certLoading' = TRUE
    /\ certRequests' = Append(certRequests, [status |-> status, stage |-> "pending",
                                             outcome |-> "none"])

\* first render at either route and the effect of 65-80
CertMount(status) ==
    /\ certPhase = "constructed"
    /\ status \in PageStatuses
    /\ certPhase' = "mounted"
    /\ pageStatus' = status
    /\ fetchCertificates(status)
    /\ UNCHANGED certificates
    /\ UNCHANGED <<navVars, quizVars, listVars, deriveVars, activeVars>>

\* the location changes between the active and the inactive route: the
\* render computes the other pageStatus and the effect runs again (80)
SwitchStatus ==
    /\ certPhase = "mounted"
    /\ pageStatus' = IF pageStatus = "Active" THEN "Inactive" ELSE "Active"
    /\ fetchCertificates(pageStatus')
    /\ UNCHANGED <<certPhase, certificates>>
    /\ UNCHANGED <<navVars, quizVars, listVars, deriveVars, activeVars>>

CertPending == {i \in 1..Len(certRequests) : certRequests[i].stage = "pending"}
CertTimers == {i \in 1..Len(certRequests) : certRequests[i].stage = "timer"}

CertOutcomes == {"ok", "failed"}

\* 69-73: setCertificates(data) on a response, console.error on a failure
CertStore(i, outcome) ==
    IF outcome = "ok"
    THEN certificates' = CertResult(certRequests[i].status)
    ELSE UNCHANGED certificates

\* fetchCertificates after `await api.get` (69-76): the response is stored or
\* the failure logged, and the finally block starts the 300 ms timer
CertSettle(i, outcome) ==
    /\ i \in CertPending
    /\ outcome \in CertOutcomes
    /\ CertStore(i, outcome)
    /\ certRequests' = [certRequests EXCEPT ![i].stage = "timer", ![i].outcome = outcome]
    /\ UNCHANGED <<certPhase, pageStatus, certLoading>>
    /\ UNCHANGED <<navVars, quizVars, listVars, deriveVars, activeVars>>

\* the callback of setTimeout (75): setLoading(false)
CertTimer(i) ==
    /\ i \in CertTimers
    /\ certLoading' = FALSE
    /\ certRequests' = [certRequests EXCEPT ![i].stage = "done"]
    /\ UNCHANGED <<certPhase, pageStatus, certificates>>
    /\ UNCHANGED <<navVars, quizVars, listVars, deriveVars, activeVars>>

----------------------------------------------------------------------------
\* Derivation layer: processedCourses and the course cards of the listings
\* (ActivrCourse.tsx 45-62, 231-241; InactiveCourses.tsx 61-78, 221-234), the
\* sidebar header and section lines of CourseDetail (483, 498-500)

\* An optional member is << >> when absent and <<v>> when present.
Absent == << >>

MaxSections == 2
MaxLessons == 2

SeqsUpTo(S, n) == UNION {[1..k -> S] : k \in 0..n}

\* lesson.videoDuration in seconds: absent, a minute and a second, an hour
Durations == {Absent, <<61>>, <<3600>>}

\* lesson.type (Course.js 36-40)
LessonTypes == {"video", "text", "quiz"}

\* lessons of the default kind, with every duration
LessonSnapshots == [type : {"video"}, videoDuration : Durations]

SectionSnapshots == [lessons : SeqsUpTo(LessonSnapshots, MaxLessons)]

\* lessons of every kind that carry a duration
MixedLessons ==
    {[type |-> "video", videoDuration |-> <<61>>],
     [type |-> "text",  videoDuration |-> <<61>>],
     [type |-> "quiz",  videoDuration |-> <<3600>>]}

\* sections filled with lessons of any kind
MixedSections == [lessons : [1..MaxLessons -> MixedLessons]]

\* course.thumbnail: undefined, a string, or an object whose url is a
\* non-empty string or is missing (value "")
Thumbnails ==
    {[kind |-> "undefined", value |-> ""],
     [kind |-> "string", value |-> "cover.png"],
     [kind |-> "object", value |-> "cdn/cover.png"],
     [kind |-> "object", value |-> ""]}

\* course.price
Prices == {0, 49}

\* course.sections: absent, or an array of sections
SectionArrays == {Absent} \cup {<<ss>> : ss \in SeqsUpTo(SectionSnapshots, MaxSections)}

\* course.sections of a curriculum that mixes the kinds of lesson
MixedArrays == {<<ss>> : ss \in SeqsUpTo(MixedSections, MaxSections)}

\* The course objects handed to the derivations: every curriculum of video
\* lessons and every curriculum of mixed kinds with one thumbnail and price,
\* and every thumbnail and price with or without a curriculum (the
\* derivations of the card read the three members separately).
CourseSnapshots ==
    [sections  : SectionArrays \cup MixedArrays,
     thumbnail : {[kind |-> "string", value |-> "cover.png"]},
     price     : {0}]
    \cup
    [sections  : {Absent, << <<[lessons |-> <<[type |-> "video",
                                               videoDuration |-> <<61>>]>>]>> >>},
     thumbnail : Thumbnails,
     price     : Prices]

\* arr.reduce((acc, x) => acc + x, 0)
RECURSIVE Sum(_)
Sum(arr) ==
    IF Len(arr) = 0 THEN 0 ELSE Head(arr) + Sum(Tail(arr))

\* sec.lessons.length of every section
LessonsLengths(sections) == [k \in DOMAIN sections |-> Len(sections[k].lessons)]

\* totalLessons of processedCourses (ActivrCourse.tsx 48, InactiveCourses.tsx
\* 63): `course.sections?.reduce(...) || 0`
totalLessons(c) ==
    IF c.sections = Absent THEN 0 ELSE Sum(LessonsLengths(c.sections[1]))

\* the sidebar header (CourseDetail.tsx 483): `{course.sections?.reduce(...)}`
\* as the text React renders, nothing for undefined
sidebarLessons(c) ==
    IF c.sections = Absent THEN "" ELSE ToString(Sum(LessonsLengths(c.sections[1])))

\* `l.videoDuration || 0`
VideoSeconds(l) == IF l.videoDuration = Absent THEN 0 ELSE l.videoDuration[1]

\* variant: the seconds are shown next to the hours as well
formatDurationWithSeconds(seconds) ==
    IF seconds = 0 THEN "0m"
    ELSE LET h == seconds \div 3600
             m == (seconds % 3600) \div 60
             sec == seconds % 60
         IN  IF h > 0 THEN ToString(h) \o "h " \o ToString(m) \o "m " \o ToString(sec) \o "s"
             ELSE ToString(m) \o "m " \o ToString(sec) \o "s"

\* formatDuration (CourseDetail.tsx 51-58)
formatDuration(seconds) ==
    IF seconds = 0 THEN "0m"
    ELSE LET h == seconds \div 3600
             m == (seconds % 3600) \div 60
             sec == seconds % 60
         IN  IF h > 0 THEN ToString(h) \o "h " \o ToString(m) \o "m"
             ELSE ToString(m) \o "m " \o ToString(sec) \o "s"

\* `section.lessons.reduce((acc, l) => acc + (l.videoDuration || 0), 0)`
\* (CourseDetail.tsx 499)
sectionSeconds(sec) ==
    Sum([k \in DOMAIN sec.lessons |-> VideoSeconds(sec.lessons[k])])

\* the duration text of a section line (CourseDetail.tsx 499)
sectionDuration(sec) == formatDuration(sectionSeconds(sec))

\* variant: every lesson is counted, whatever its kind
lessonContributionAnyKind(lesson) ==
    VideoSeconds(lesson)

\* what one lesson adds to totalSeconds (Course.js 152-154)
lessonContribution(lesson) ==
    IF lesson.type = "video" /\ VideoSeconds(lesson) # 0
    THEN lesson.videoDuration[1]
    ELSE 0

\* the forEach over section.lessons (Course.js 150-156)
sectionTotal(section) ==
    Sum([k \in DOMAIN section.lessons |-> lessonContribution(section.lessons[k])])

\* the totalDuration virtual of the course document (Course.js 146-160)
totalDuration(c) ==
    IF c.sections # Absent /\ Len(c.sections[1]) > 0
    THEN Sum([k \in DOMAIN c.sections[1] |-> sectionTotal(c.sections[1][k])])
    ELSE 0

\* variant: an object thumbnail is used without reading its url
thumbnailUrlObjectAsIs(thumbnail, tag) ==
    IF thumbnail.kind = "undefined"
    THEN "https://via.placeholder.com/600x400?text=" \o tag
    ELSE thumbnail.value

\* derived.thumbnailUrl (ActivrCourse.tsx 57-59 with tag "Course",
\* InactiveCourses.tsx 72-74 with tag "Archive")
thumbnailUrl(thumbnail, tag) ==
    IF thumbnail.kind = "string" THEN thumbnail.value
    ELSE IF thumbnail.kind = "object" /\ thumbnail.value # "" THEN thumbnail.value
    ELSE "https://via.placeholder.com/600x400?text=" \o tag

\* variant: the archive rule applied to the active listing
activePriceAlwaysFree(price) == "Free"

\* the price label of a card of the active listing (ActivrCourse.tsx 237)
activePrice(price) == IF price = 0 THEN "Free" ELSE "$" \o ToString(price)

\* the price label of a card of the archived listing (InactiveCourses.tsx 228)
archivedPrice(price) == "Free"

\* the active listing renders the card of a course
RenderActiveCard ==
    /\ derived' = [view      |-> "active",
                   lessons   |-> totalLessons(snapshot),
                   thumbnail |-> thumbnailUrl(snapshot.thumbnail, "Course"),
                   price     |-> activePrice(snapshot.price)]
    /\ UNCHANGED <<snapshot, navVars, quizVars, listVars, activeVars, certVars>>

\* the archived listing renders the card of a course
RenderArchivedCard ==
    /\ derived' = [view      |-> "archived",
                   lessons   |-> totalLessons(snapshot),
                   thumbnail |-> thumbnailUrl(snapshot.thumbnail, "Archive"),
                   price     |-> archivedPrice(snapshot.price)]
    /\ UNCHANGED <<snapshot, navVars, quizVars, listVars, activeVars, certVars>>

\* res.url of a resource: with a scheme, without one, a host that begins
\* with the letters "http", another transport scheme
ResourceUrls ==
    {"https://files.io/a.pdf", "http://files.io/a.pdf", "files.io/a.pdf",
     "httpbin.org/a.pdf", "ftp://files.io/a.pdf"}

\* String.prototype.startsWith
startsWith(str, prefix) ==
    Len(str) >= Len(prefix) /\ SubSeq(str, 1, Len(prefix)) = prefix

\* the href of a resource link (CourseDetail.tsx 141)
resourceHref(url) ==
    IF startsWith(url, "http") THEN url ELSE "https://" \o url

\* ResourceBlock renders the link of a resource
RenderResource(url) ==
    /\ url \in ResourceUrls
    /\ derived' = [view |-> "resource", url |-> url, href |-> resourceHref(url)]
    /\ UNCHANGED <<snapshot, navVars, quizVars, listVars, activeVars, certVars>>

\* CourseDetail renders the sidebar of a course
RenderSidebar ==
    /\ derived' = [view      |-> "detail",
                   lessons   |-> sidebarLessons(snapshot),
                   durations |-> IF snapshot.sections = Absent THEN << >>
                                 ELSE [k \in DOMAIN snapshot.sections[1] |->
                                            sectionDuration(snapshot.sections[1][k])]]
    /\ UNCHANGED <<snapshot, navVars, quizVars, listVars, activeVars, certVars>>

\* the course document is serialised with its virtuals (Course.js 132-133)
SerializeDocument ==
    /\ derived' = [view |-> "document", totalDuration |-> totalDuration(snapshot)]
    /\ UNCHANGED <<snapshot, navVars, quizVars, listVars, activeVars, certVars>>

----------------------------------------------------------------------------
\* Specifications

\* useState initial values (CourseDetail.tsx 68-72, 313, 187-188;
\* InactiveCourses.tsx 22-26)
Init ==
    /\ phase = "constructed"
    /\ id = Undefined
    /\ course = Null
    /\ loading = TRUE
    /\ error = Null
    /\ activeLesson = Null
    /\ expandedSections = {}
    /\ loads = {}
    /\ navCount = 0
    /\ activeTab = "overview"
    /\ answers = << >>
    /\ submitted = {}
    /\ listPhase = "constructed"
    /\ courses = << >>
    /\ listLoading = TRUE
    /\ listError = Null
    /\ searchTerm = ""
    /\ isFiltering = FALSE
    /\ requests = << >>
    /\ snapshot = Null
    /\ derived = [view |-> "none"]
    /\ InitActiveListing
    /\ InitCertificatesPage

\* the single-course view: useCourseLogic
Next ==
    \/ \E i \in RouteIds : Mount(i)
    \/ \E i \in RouteIds : Navigate(i)
    \/ Unmount
    \/ \E r \in loads : \E outcome \in Outcomes(r.id) : LoadResolve(r, outcome)
    \/ \E sectionId \in AllSectionIds : ToggleSection(sectionId)
    \/ \E lesson \in AllLessonIds : SelectLesson(lesson)

Spec == Init /\ [][Next]_vars

\* a course view whose load has completed: course c is displayed as
\* load() initialised it
InitLoaded ==
    /\ phase = "mounted"
    /\ \E c \in CourseIds :
        /\ id = c
        /\ course = c
        /\ activeLesson = InitialLesson(c, Null)
        /\ expandedSections = InitialExpanded(c, {})
    /\ loading = FALSE
    /\ error = Null
    /\ loads = {}
    /\ navCount = 1
    /\ activeTab = "overview"
    /\ answers = << >>
    /\ submitted = {}
    /\ listPhase = "constructed"
    /\ courses = << >>
    /\ listLoading = TRUE
    /\ listError = Null
    /\ searchTerm = ""
    /\ isFiltering = FALSE
    /\ requests = << >>
    /\ snapshot = Null
    /\ derived = [view |-> "none"]
    /\ InitActiveListing
    /\ InitCertificatesPage

\* the lesson-view session: curriculum sidebar, tabs and QuizModule
NextQuiz ==
    \/ \E sectionId \in AllSectionIds : ToggleSection(sectionId)
    \/ \E lesson \in AllLessonIds : SelectLesson(lesson)
    \/ \E tab \in Tabs : SetActiveTab(tab)
    \/ \E qIdx \in Questions : \E oIdx \in Options(qIdx) : handleSelect(qIdx, oIdx)
    \/ \E qIdx \in Questions : SubmitAnswer(qIdx)

SpecQuiz == InitLoaded /\ [][NextQuiz]_vars

\* the archived listing: useArchivedCourses as the page drives it
NextList ==
    \/ ListMount
    \/ \E text \in SearchTexts : SetSearchTerm(text)
    \/ \E key \in Keys : handleSearch(key)
    \/ retry
    \/ \E i \in Pending : \E settlement \in Settlements : FetchSettle(i, settlement)

SpecList == Init /\ [][NextList]_vars

\* useArchivedCourses driven through every handler it returns (80-89),
\* clearFilters included
NextListHook ==
    \/ NextList
    \/ clearFilters

SpecListHook == Init /\ [][NextListHook]_vars

\* the derivation layer applied to any course snapshot
InitDerive ==
    /\ phase = "constructed"
    /\ id = Undefined
    /\ course = Null
    /\ loading = TRUE
    /\ error = Null
    /\ activeLesson = Null
    /\ expandedSections = {}
    /\ loads = {}
    /\ navCount = 0
    /\ activeTab = "overview"
    /\ answers = << >>
    /\ submitted = {}
    /\ listPhase = "constructed"
    /\ courses = << >>
    /\ listLoading = TRUE
    /\ listError = Null
    /\ searchTerm = ""
    /\ isFiltering = FALSE
    /\ requests = << >>
    /\ snapshot \in CourseSnapshots
    /\ derived = [view |-> "none"]
    /\ InitActiveListing
    /\ InitCertificatesPage

NextDerive ==
    \/ RenderActiveCard
    \/ RenderArchivedCard
    \/ RenderSidebar
    \/ \E url \in ResourceUrls : RenderResource(url)
    \/ SerializeDocument

SpecDerive == InitDerive /\ [][NextDerive]_vars

\* the two pages are different routes: the one that is rendered runs, the
\* other stays unconstructed
NextPages ==
    \/ listPhase = "constructed" /\ Next
    \/ phase = "constructed" /\ NextList

SpecPages == Init /\ [][NextPages]_vars

\* the active listing: useCourseListing as the page drives it; every call
\* handed to the context settles
NextActive ==
    \/ ActiveMount
    \/ \E text \in SearchTexts : ActiveSetSearchTerm(text)
    \/ \E key \in Keys : ActiveHandleSearch(key)
    \/ ActiveClearFilters
    \/ ActiveRetry
    \/ \E i \in PendingCalls : \E outcome \in CallOutcomes : FetchCoursesSettle(i, outcome)

SpecActive ==
    /\ Init
    /\ [][NextActive]_vars
    /\ WF_vars(\E i \in PendingCalls : \E outcome \in CallOutcomes : FetchCoursesSettle(i, outcome))

\* the certificates page
NextCertificates ==
    \/ \E status \in PageStatuses : CertMount(status)
    \/ SwitchStatus
    \/ \E i \in CertPending : \E outcome \in CertOutcomes : CertSettle(i, outcome)
    \/ \E i \in CertTimers : CertTimer(i)

SpecCertificates == Init /\ [][NextCertificates]_vars

\* the single-course view or the archived listing, whichever route is
\* rendered, the listing driven through every handler of its hook; every
\* fetch that has been issued settles
NextViews ==
    \/ listPhase = "constructed" /\ Next
    \/ phase = "constructed" /\ NextListHook

SpecViewsFair ==
    /\ Init
    /\ [][NextViews]_vars
    /\ WF_vars(\E r \in loads : \E outcome \in Outcomes(r.id) : LoadResolve(r, outcome))
    /\ WF_vars(\E i \in Pending : \E settlement \in Settlements : FetchSettle(i, settlement))

----------------------------------------------------------------------------
\* Properties

\* C1: in the listing fetch cycle a response of an older request never
\* overwrites the result of a more recently issued one: once every request
\* has settled and the most recently issued one succeeded, `courses` is the
\* result for that request's keyword ("go" then "rust", resolving out of
\* order, leaves the "rust" list).
C1_LatestIssuedWins ==
    (/\ Len(requests) > 0
     /\ Pending = {}
     /\ requests[Len(requests)].status = "ok")
    => courses = Result(requests[Len(requests)].keyword)

\* C2: within one QuizModule instance a submitted question stays submitted
\* and its recorded answer never changes.
C2_SubmissionIrreversible ==
    [][(QuizMounted /\ QuizMounted') =>
        \A q \in submitted :
            /\ q \in submitted'
            /\ q \in DOMAIN answers'
            /\ answers'[q] = answers[q]]_vars

\* a question is submitted while another one is answered and still open
C2_Witness ==
    /\ QuizMounted
    /\ 0 \in submitted
    /\ 1 \in DOMAIN answers
    /\ 1 \notin submitted

\* C3: SelectOption(q, o) changes nothing when q is submitted; otherwise it
\* records o for q, replacing any earlier choice, and leaves every other
\* question's answer and the submitted set as they were.
\* For an open question every option can be selected, whatever was chosen
\* before, and the selection is what gets recorded.
C3_SelectOption ==
    /\ [][\A q \in Questions : \A o \in Options(q) :
            handleSelect(q, o) =>
                IF q \in submitted
                THEN answers' = answers /\ submitted' = submitted
                ELSE /\ DOMAIN answers' = (DOMAIN answers) \cup {q}
                     /\ answers'[q] = o
                     /\ \A p \in (DOMAIN answers) \ {q} : answers'[p] = answers[p]
                     /\ submitted' = submitted]_vars
    /\ [](QuizMounted =>
            \A q \in Questions \ submitted : \A o \in Options(q) :
                ENABLED (handleSelect(q, o) /\ answers'[q] = o))

\* the last option of question 0 is recorded and the question is still open
C3_Witness ==
    /\ QuizMounted
    /\ activeLesson = "L1"
    /\ 0 \in DOMAIN answers
    /\ answers[0] = 2
    /\ 0 \notin submitted
    /\ 1 \in submitted

\* C4: Submit(q) changes nothing when no answer is recorded for q, and adds
\* q to `submitted` (answers untouched) when one is; so every submitted
\* question has a recorded answer in every reachable state.
C4_SubmittedHaveAnswers ==
    /\ [](submitted \subseteq DOMAIN answers)
    /\ [][\A q \in Questions :
            SubmitAnswer(q) =>
                /\ answers' = answers
                /\ submitted' = IF q \in DOMAIN answers THEN submitted \cup {q}
                                                        ELSE submitted]_vars

\* every question of the lesson is submitted
C4_Witness ==
    /\ QuizMounted
    /\ activeLesson = "L1"
    /\ submitted = {0, 1}

\* C5: whenever the active lesson changes, `answers` and `submitted` are
\* empty afterwards.
C5_ResetOnLessonChange ==
    [][(activeLesson' # activeLesson) => (answers' = << >> /\ submitted' = {})]_vars

\* a mounted load() whose fetch resolved with a course: the step that
\* applies Initialize
Initialized(r) == r.isMounted /\ LoadResolve(r, "data")

\* C6: after a load that succeeds for a course with at least one section the
\* expanded set is exactly {first section's id}, and if that section has a
\* lesson its first lesson is the active one.
C6_Initialize ==
    [][\A r \in loads :
        (Initialized(r) /\ Len(Sections(r.id)) > 0) =>
            /\ expandedSections' = {Sections(r.id)[1]}
            /\ Len(Lessons(Sections(r.id)[1])) > 0 =>
                   activeLesson' = Lessons(Sections(r.id)[1])[1]]_vars

\* sections [A, B] with A = [L1, L2]: expanded = {A}, active = L1
C6_Witness ==
    /\ Displayed
    /\ course = "c1"
    /\ navCount = 1
    /\ expandedSections = {"A"}
    /\ activeLesson = "L1"

\* C7: after every successful load of a course without sections there is no
\* active lesson, no expanded section and no error.
C7_NoSectionsEmpty ==
    [][\A r \in loads :
        (Initialized(r) /\ Len(Sections(r.id)) = 0) =>
            /\ activeLesson' = Null
            /\ expandedSections' = {}
            /\ error' = Null]_vars

C9_ToggleSymmetricDifference ==
    [][\A s \in AllSectionIds :
        ToggleSection(s) =>
            \A t \in AllSectionIds :
                (t \in expandedSections') <=> ((t \in expandedSections) # (t = s))]_vars

\* every section of a two-section course is expanded at the same time
C9_Witness ==
    /\ Displayed
    /\ course = "c1"
    /\ expandedSections = {"A", "B"}

\* C10: a second ToggleSection(s) right after the first gives back the
\* expanded set the first one started from. React applies the updaters it
\* has queued in order, each to the result of the one before, so the second
\* toggle of a batch is the updater applied to the first one's result.
C10_ToggleTwice ==
    [][\A s \in AllSectionIds :
        ToggleSection(s) => toggle(expandedSections', s) = expandedSections]_vars

\* the initially expanded section was collapsed while another one is open
C10_Witness ==
    /\ Displayed
    /\ course = "c1"
    /\ expandedSections = {"B"}

\* C11: SelectLesson(l) makes l the active lesson and leaves the expanded
\* set, course, loading and error as they were; the callback takes any
\* lesson, of the held course or not, and a click takes any lesson of the
\* course, in an expanded section or not.
C11_SelectLessonUnconditional ==
    /\ [][\A l \in AllLessonIds :
            SelectLesson(l) =>
                /\ activeLesson' = l
                /\ UNCHANGED <<expandedSections, course, loading, error>>]_vars
    /\ [](\A l \in AllLessonIds : ENABLED (selectLesson(l) /\ activeLesson' = l))
    /\ [](Displayed => \A l \in LessonIds(course) : ENABLED SelectLesson(l))

\* a lesson of a collapsed section is the active one
C11_Witness ==
    /\ Displayed
    /\ course = "c1"
    /\ activeLesson = "L3"
    /\ expandedSections = {"A"}

\* C12: a step that issues a fetch sets loading; a fetch that succeeds
\* replaces `courses` by the response's list and sets error to null; a fetch
\* that fails sets error and leaves `courses` as it was.
C12_FetchCycle ==
    /\ [][(Len(requests') > Len(requests)) => listLoading']_vars
    /\ [][\A i \in Pending :
            FetchSettle(i, "ok") =>
                /\ courses' = Result(requests[i].keyword)
                /\ listError' = Null]_vars
    /\ [][\A i \in Pending : \A settlement \in Settlements \ {"ok"} :
            FetchSettle(i, settlement) =>
                /\ listError' # Null
                /\ courses' = courses]_vars

\* a failure has arrived while a fetched list was held: both are in the state
C12_Witness ==
    /\ listError # Null
    /\ courses = Result("go")
    /\ \E i \in 1..Len(requests) : requests[i].status = "failed"

\* C13: Retry after a failed fetch re-issues the fetch with the keyword of
\* the last fetch that was sent (the failed one), whatever the search box
\* holds now.
C13_RetryLastKeyword ==
    [][(retry /\ requests[Len(requests)].status = "failed") =>
            /\ Len(requests') = Len(requests) + 1
            /\ requests'[Len(requests')].keyword = requests[Len(requests)].keyword]_vars

\* C14: the initial load issues exactly one fetch, with the empty keyword,
\* and afterwards a fetch is issued only by a confirmed search, a clear or a
\* retry, one fetch per event.
C14_InitialLoadOnce ==
    /\ [][ListMount =>
            requests' = <<[keyword |-> "", status |-> "pending"]>>]_vars
    /\ [][(requests' # requests /\ listPhase = "mounted") =>
            \/ /\ handleSearch("Enter") \/ clearFilters \/ retry
               /\ Len(requests') = Len(requests) + 1
            \/ /\ \E i \in Pending : \E settlement \in Settlements :
                        FetchSettle(i, settlement)
               /\ Len(requests') = Len(requests)]_vars
    /\ [](listPhase = "mounted" =>
            /\ Len(requests) >= 1
            /\ requests[1].keyword = "")

\* the page has loaded, the search text was edited, and the initial fetch
\* is still the only one issued
C14_Witness ==
    /\ listPhase = "mounted"
    /\ Len(requests) = 1
    /\ requests[1].status = "ok"
    /\ searchTerm = "rust"
    /\ courses = Result("")

\* C15: changing the search text only sets the keyword state and issues no
\* fetch; a fetch carrying a keyword is issued only on an Enter key event and
\* carries the search text of that moment; any other key issues no fetch.
C15_FetchOnlyOnEnter ==
    /\ [][\A text \in SearchTexts :
            SetSearchTerm(text) =>
                /\ searchTerm' = text
                /\ requests' = requests]_vars
    /\ [][\A key \in Keys :
            handleSearch(key) =>
                requests' = IF key = "Enter"
                            THEN Append(requests, [keyword |-> searchTerm, status |-> "pending"])
                            ELSE requests]_vars
    /\ [][(Len(requests') > Len(requests) /\ requests'[Len(requests')].keyword # "") =>
            handleSearch("Enter")]_vars

\* the listing the page shows (197-216): the grid of `courses`, unless the
\* skeleton, the error view or the empty-state view is shown in its place
ListShown ==
    IF listLoading \/ isFiltering THEN "loading"
    ELSE IF listError # Null THEN "error"
    ELSE IF Len(courses) = 0 THEN "empty"
    ELSE "courses"

\* the controls the archive's EmptyState renders (162-173): the heading only,
\* the "Clear Search" button is commented out (168-171)
EmptyStateControls == {}

\* C16: Clear sets the keyword to empty and issues exactly one fetch, with
\* the empty keyword, whatever the keyword was; when that fetch succeeds the
\* listing shown is the unfiltered one.
C16_Clear ==
    /\ [][clearFilters =>
            /\ searchTerm' = ""
            /\ requests' = Append(requests, [keyword |-> "", status |-> "pending"])]_vars
    /\ [](listPhase = "mounted" /\ Len(requests) < MaxFetches =>
            ENABLED (clearFilters /\ Len(requests') = Len(requests) + 1))
    /\ [][\A i \in Pending :
            (requests[i].keyword = "" /\ FetchSettle(i, "ok")) =>
                /\ ListShown' = "courses"
                /\ courses' = Result("")]_vars

\* a search for "go" was followed by a fetch with the empty keyword, issued
\* with no confirmed search pending; it succeeded and the unfiltered list shows
C16_Witness ==
    /\ Len(requests) = 3
    /\ requests[2] = [keyword |-> "go", status |-> "ok"]
    /\ requests[3] = [keyword |-> "", status |-> "ok"]
    /\ searchTerm = ""
    /\ ListShown = "courses"
    /\ courses = Result("")

\* a request issued after request i has already succeeded
Superseded(i) ==
    \E j \in (i + 1)..Len(requests) : requests[j].status = "ok"

\* C17: when an older fetch fails after a more recent fetch has succeeded,
\* the late failure is discarded: it does not set `error`, and the listing
\* that was shown is not replaced by the error view.
C17_LateFailureDiscarded ==
    [][\A i \in Pending : \A settlement \in Settlements \ {"ok"} :
            (Superseded(i) /\ FetchSettle(i, settlement)) =>
                /\ listError' = listError
                /\ (ListShown = "courses" => ListShown' = "courses")]_vars

\* C18: on every fetch failure the error state holds a non-empty message,
\* the collaborator's message when the failure carries one and the generic
\* "failed to load" message otherwise, in the archived listing and in the
\* single-course view alike.
C18_CollaboratorMessageOrGeneric ==
    /\ [][\A i \in Pending :
            /\ FetchSettle(i, "message") => listError' = PayloadMessage
            /\ FetchSettle(i, "nomessage") =>
                    listError' = "Failed to load archived courses"]_vars
    /\ [][\A r \in loads :
            /\ (r.isMounted /\ LoadResolve(r, "rejectMessage")) => error' = PayloadMessage
            /\ (r.isMounted /\ LoadResolve(r, "reject")) =>
                    error' = "Failed to load course."]_vars

\* C18 (as the code has it): a failure of the archived listing's fetch sets
\* error to the collaborator's message when it carries one and to the generic
\* message otherwise; a failure of the single-course load that is applied
\* sets error to the fixed "Failed to load course." with or without a
\* message, and a load that returns no course sets "Course not found.".
C18_MessagePerView ==
    /\ [][\A i \in Pending :
            /\ FetchSettle(i, "message") => listError' = PayloadMessage
            /\ FetchSettle(i, "nomessage") =>
                    listError' = "Failed to load archived courses"]_vars
    /\ [][\A r \in loads : \A outcome \in {"reject", "rejectMessage"} :
            (r.isMounted /\ LoadResolve(r, outcome)) =>
                error' = "Failed to load course."]_vars
    /\ [][\A r \in loads :
            (r.isMounted /\ LoadResolve(r, "null")) => error' = "Course not found."]_vars
    /\ [](listError \in {Null, PayloadMessage, "Failed to load archived courses"})
    /\ [](error \in {Null, "Failed to load course.", "Course not found."})

\* the archived listing shows the message a failure carried
C18_Witness ==
    /\ ListShown = "error"
    /\ listError = PayloadMessage
    /\ requests[Len(requests)].status = "failed"

\* C19: for every submitted question the grade is the correctness flag of
\* the option selected for that question; for a question not submitted no
\* grade is reported.
C19_GradeIsSelectedFlag ==
    QuizMounted =>
        \A q \in Questions :
            IF q \in submitted
            THEN /\ answers[q] \in Options(q)
                 /\ Grade(q) = IF OptionFlag(q, answers[q]) THEN "true" ELSE "false"
            ELSE Grade(q) = Undefined

ShownCorrect == [style |-> "emerald", icon |-> "CheckCircle2"]
ShownWrong == [style |-> "rose", icon |-> "XCircle"]

\* C20: for a submitted question every option flagged correct is shown as
\* correct, chosen or not, and the selected option is shown as wrong exactly
\* when it is not flagged correct; for a question not submitted what an
\* option shows is fixed by whether it is the selected one, and is the same
\* for either value of its correctness flag.
C20_AnswerReveal ==
    QuizMounted =>
        \A q \in Questions : \A o \in Options(q) :
            IF q \in submitted
            THEN /\ OptionFlag(q, o) => OptionView(q, o) = ShownCorrect
                 /\ IsSelected(q, o) =>
                        (OptionView(q, o) = ShownWrong <=> ~OptionFlag(q, o))
                 /\ (OptionView(q, o) = ShownWrong) => IsSelected(q, o)
            ELSE /\ renderOption(FALSE, IsSelected(q, o), TRUE)
                        = renderOption(FALSE, IsSelected(q, o), FALSE)
                 /\ OptionView(q, o).icon = "none"
                 /\ OptionView(q, o).style =
                        IF IsSelected(q, o) THEN "violet" ELSE "slate"

\* question 0 of L1 is submitted with a wrong option, question 1 has its
\* correct option selected and is not submitted
C20_Witness ==
    /\ QuizMounted
    /\ activeLesson = "L1"
    /\ 0 \in submitted
    /\ OptionView(0, 0) = ShownWrong
    /\ OptionView(0, 1) = ShownCorrect
    /\ 1 \notin submitted
    /\ IsSelected(1, 0)
    /\ OptionView(1, 0).style = "violet"

\* C21: with more than one option flagged correct, a submitted question is
\* graded correct only when the selected option is the first flagged option
\* in option order; a later flagged option is graded incorrect.
C21_FirstFlaggedWins ==
    QuizMounted =>
        \A q \in Questions \cap submitted :
            answers[q] \in Options(q) =>
                LET flagged == {o \in Options(q) : OptionFlag(q, o)}
                    isFirst == /\ answers[q] \in flagged
                               /\ \A o \in flagged : answers[q] <= o
                IN  Grade(q) = IF isFirst THEN "true" ELSE "false"

\* C22: selecting an option for question q or submitting q leaves the
\* answer, the submitted status and the grade of every other question p as
\* they were and leaves the active lesson as it was; whatever the quiz state,
\* every lesson of the course can still be selected.
C22_QuestionsIndependent ==
    /\ [][\A q \in Questions :
            (SubmitAnswer(q) \/ \E o \in Options(q) : handleSelect(q, o)) =>
                /\ activeLesson' = activeLesson
                /\ \A p \in Questions \ {q} :
                        /\ (p \in DOMAIN answers') <=> (p \in DOMAIN answers)
                        /\ p \in DOMAIN answers => answers'[p] = answers[p]
                        /\ (p \in submitted') <=> (p \in submitted)
                        /\ Grade(p)' = Grade(p)]_vars
    /\ [](Displayed => \A l \in LessonIds(course) : ENABLED SelectLesson(l))

\* question 1 of L1 is submitted and graded while question 0 holds a wrong
\* answer that is not submitted
C22_Witness ==
    /\ QuizMounted
    /\ activeLesson = "L1"
    /\ submitted = {1}
    /\ Grade(1) = "true"
    /\ IsSelected(0, 0)
    /\ Grade(0) = Undefined

\* C23: whenever a course is displayed, the active lesson, if any, is a
\* lesson of that course and every expanded section is a section of that
\* course; nothing of a previously viewed course carries over.
C23_NavigationFreshPerCourse ==
    Displayed =>
        /\ activeLesson # Null => activeLesson \in LessonIds(course)
        /\ expandedSections \subseteq SectionIds(course)

\* C24: while the single-course view is mounted with no course id, no fetch
\* has been issued for it and the view is in the error state: error
\* populated, loading false, no course held; the error view, which carries
\* the link back to the listing, is what is rendered.
C24_MissingSelector ==
    (phase = "mounted" /\ id = Undefined) =>
        /\ \A r \in loads : r.id # Undefined /\ ~r.isMounted
        /\ error # Null
        /\ ~loading
        /\ course = Null

\* C25: when a fetch has succeeded with zero courses, error is null, the
\* empty-state view is shown and that view offers the Clear action.
C25_EmptyResultOffersClear ==
    (listPhase = "mounted" /\ ListShown = "empty") =>
        /\ listError = Null
        /\ "Clear Search" \in EmptyStateControls

\* C26: a single-course load that fails and is not superseded, and an
\* archived-listing fetch that fails and is the latest one issued, end with
\* error populated and loading false, so that the error view is displayed;
\* the view is not left loading or showing a success or empty view.
C26_NoFailureSwallowed ==
    /\ [][\A r \in loads : \A outcome \in {"reject", "rejectMessage", "null"} :
            (r.isMounted /\ LoadResolve(r, outcome)) =>
                /\ error' # Null
                /\ ~loading'
                /\ DetailShown' = "error"]_vars
    /\ [](phase = "mounted" /\ id = Undefined => DetailShown = "error" /\ error # Null)
    /\ [][\A i \in Pending : \A settlement \in Settlements \ {"ok"} :
            (i = Len(requests) /\ FetchSettle(i, settlement)) =>
                /\ listError' # Null
                /\ ~listLoading'
                /\ ListShown' = "error"]_vars

\* the load of a known course was rejected: the error view is displayed
C26_Witness ==
    /\ phase = "mounted"
    /\ id = "c1"
    /\ loads = {}
    /\ course = Null
    /\ DetailShown = "error"
    /\ error = "Failed to load course."

\* C27: the lesson count shown for a course is the sum of the lengths of
\* the lesson arrays of its sections, 0 for a course whose sections array is
\* empty or absent, and the listing cards and the course-detail sidebar show
\* the same number for the same course.
C27_LessonCount ==
    LET n == IF snapshot.sections = Absent THEN 0
             ELSE Sum(LessonsLengths(snapshot.sections[1]))
    IN  /\ derived.view \in {"active", "archived"} => derived.lessons = n
        /\ derived.view = "detail" => derived.lessons = ToString(n)

\* C28: the duration text of a lesson sequence is built from the total T of
\* the lessons' videoDuration in seconds, a missing duration counting as 0:
\* "0m" when T = 0, "{h}h {m}m" with h = T div 3600 and m = (T mod 3600) div
\* 60 when T >= 3600, and "{m}m {s}s" with m = T div 60 and s = T mod 60
\* otherwise.
C28_TotalDuration ==
    (derived.view = "detail" /\ snapshot.sections # Absent) =>
        \A k \in DOMAIN snapshot.sections[1] :
            LET lessons == snapshot.sections[1][k].lessons
                T == Sum([j \in DOMAIN lessons |->
                            IF lessons[j].videoDuration = Absent THEN 0
                            ELSE lessons[j].videoDuration[1]])
            IN  derived.durations[k] =
                    IF T = 0 THEN "0m"
                    ELSE IF T >= 3600
                    THEN ToString(T \div 3600) \o "h " \o ToString((T % 3600) \div 60) \o "m"
                    ELSE ToString(T \div 60) \o "m " \o ToString(T % 60) \o "s"

\* 3661 seconds are shown as "1h 1m", a section without lessons as "0m"
C28_Witness ==
    /\ derived.view = "detail"
    /\ derived.durations = <<"1h 1m", "0m">>
    /\ Len(snapshot.sections[1][2].lessons) = 0

\* C29: the thumbnail URL of a card is the thumbnail itself when it is a
\* string, its url when it is an object carrying one, and otherwise (absent
\* thumbnail, object without url) the placeholder URL tagged "Course" in the
\* active listing and "Archive" in the archived listing; a value results in
\* every case.
C29_ResolveThumbnail ==
    derived.view \in {"active", "archived"} =>
        LET t == snapshot.thumbnail
            tag == IF derived.view = "active" THEN "Course" ELSE "Archive"
        IN  /\ t.kind = "string" => derived.thumbnail = t.value
            /\ (t.kind = "object" /\ t.value # "") => derived.thumbnail = t.value
            /\ (t.kind = "undefined" \/ (t.kind = "object" /\ t.value = "")) =>
                    derived.thumbnail = "https://via.placeholder.com/600x400?text=" \o tag

\* an archived course whose thumbnail object has no url gets the placeholder
C29_Witness ==
    /\ derived.view = "archived"
    /\ snapshot.thumbnail = [kind |-> "object", value |-> ""]
    /\ derived.thumbnail = "https://via.placeholder.com/600x400?text=Archive"

\* C30: the price label is "Free" when the stored price is zero or the card
\* belongs to the archived listing, whatever the stored price, and otherwise
\* the stored price prefixed with the currency sign; in the active listing a
\* non-zero price is never labelled "Free".
C30_ResolvePrice ==
    /\ derived.view = "archived" => derived.price = "Free"
    /\ derived.view = "active" =>
            /\ snapshot.price = 0 => derived.price = "Free"
            /\ snapshot.price # 0 =>
                    /\ derived.price = "$" \o ToString(snapshot.price)
                    /\ derived.price # "Free"

\* a course priced 49 is shown as "$49" in the active listing
C30_Witness ==
    /\ derived.view = "active"
    /\ snapshot.price = 49
    /\ derived.price = "$49"

\* C31: the link rendered for a resource is the stored URL unchanged when
\* the URL carries a transport scheme and the stored URL prefixed with
\* "https://" when it carries none; a host that only begins with the letters
\* "http" carries no scheme and is prefixed.
C31_ResourceUrlNormalized ==
    derived.view = "resource" =>
        LET url == derived.url
            hasScheme == \E k \in 1..(Len(url) - 2) : SubSeq(url, k, k + 2) = "://"
        IN  derived.href = IF hasScheme THEN url ELSE "https://" \o url

\* C32: when the active lesson has no video key, or no lesson is active,
\* the displayed course shows the placeholder in place of the player and
\* error stays null; selecting a lesson without a video key leaves error
\* null, keeps the course displayed and renders the lesson's quizzes.
C32_MissingVideoKeyTolerated ==
    /\ [](Displayed =>
            /\ (activeLesson = Null \/ VideoKey(activeLesson) = "") <=> Player = "placeholder"
            /\ Player = "placeholder" => error = Null /\ DetailShown = "course")
    /\ [][\A l \in AllLessonIds :
            (SelectLesson(l) /\ VideoKey(l) = "") =>
                /\ error' = Null
                /\ Displayed'
                /\ Player' = "placeholder"
                /\ (activeTab' = "overview" /\ Len(Quizzes(l)) > 0) => QuizMounted']_vars

\* L2, a lesson without a video key, is active: the placeholder is shown and
\* its quiz is rendered
C32_Witness ==
    /\ Displayed
    /\ activeLesson = "L2"
    /\ Player = "placeholder"
    /\ QuizMounted

\* C33: a response whose request was superseded (the id changed or the view
\* was unmounted) changes none of course, activeLesson, expandedSections,
\* error and loading, and the state left by the response for the latest id
\* is determined by that response alone: it is the state a fresh view would
\* reach with the same response.
C33_LatestResponseDetermines ==
    [][\A r \in loads : \A outcome \in Outcomes(r.id) :
            LoadResolve(r, outcome) =>
                IF ~r.isMounted
                THEN UNCHANGED <<course, activeLesson, expandedSections, error, loading>>
                ELSE /\ ~loading'
                     /\ IF outcome = "data"
                        THEN /\ course' = r.id
                             /\ expandedSections' = InitialExpanded(r.id, {})
                             /\ activeLesson' = InitialLesson(r.id, Null)
                             /\ error' = Null
                        ELSE /\ course' = Null
                             /\ expandedSections' = {}
                             /\ activeLesson' = Null
                             /\ error' # Null]_vars

\* C34: in the archived listing the exposed loading flag (loading or
\* isFiltering) is true in every state in which a fetch is in flight.
C34_LoadingWhileInFlight ==
    (listPhase = "mounted" /\ Pending # {}) => (listLoading \/ isFiltering)

\* C35: after a load that succeeds and is not superseded, error is null and
\* the course is displayed, also when an earlier load of the same view had
\* failed or had no id.
C35_SuccessClearsError ==
    [][\A r \in loads :
            Initialized(r) =>
                /\ error' = Null
                /\ DetailShown' = "course"]_vars

\* C36: in the active listing, after a search confirmed with Enter the
\* isFiltering flag is reset to false once the fetch has settled, whether it
\* resolved or rejected: a raised flag always comes down again
C36_FilteringEventuallyReset ==
    activeIsFiltering ~> ~activeIsFiltering

\* load() calls whose closure still has isMounted = true
LiveLoads == {r \in loads : r.isMounted}

\* C37: loading terminates. In the single-course view and in the archived
\* listing, when every issued fetch settles and the view stays mounted, a
\* state with no fetch of the view outstanding and loading = false is reached;
\* in every such state the view shows exactly one of error, empty and content;
\* and loading rises again only in a step that issues a fetch (a user event)
C37_LoadingTerminates ==
    /\ [](phase = "mounted" => <>(phase = "unmounted" \/ (LiveLoads = {} /\ ~loading)))
    /\ [](listPhase = "mounted" => <>(Pending = {} /\ ~(listLoading \/ isFiltering)))
    /\ []((phase = "mounted" /\ LiveLoads = {}) => DetailShown \in {"error", "course"})
    /\ []((listPhase = "mounted" /\ Pending = {}) => ListShown \in {"error", "empty", "courses"})
    /\ [][(phase = "mounted" /\ ~loading /\ loading') => navCount' = navCount + 1]_vars
    /\ [][(listPhase = "mounted" /\ ListShown # "loading" /\ ListShown' = "loading")
            => Len(requests') = Len(requests) + 1]_vars

\* the archived listing at rest after a failed fetch: every request has
\* settled, the last one failed, and the page shows the error view
C37_Witness ==
    /\ listPhase = "mounted"
    /\ Len(requests) >= 2
    /\ Pending = {}
    /\ requests[Len(requests)].status = "failed"
    /\ ListShown = "error"

\* the request issued by the latest run of the effect; it is for pageStatus
CurrentRequest == certRequests[Len(certRequests)]

\* C38: in the certificates page, once every request has settled and the one
\* for the current page status brought a response, the list held is the list
\* of the current status; and while the request for the current status is in
\* flight the page stays in its loading state
C38_CurrentStatusWins ==
    (certPhase = "mounted") =>
        /\ (CertPending = {} /\ CurrentRequest.outcome = "ok")
              => certificates = CertResult(pageStatus)
        /\ (CurrentRequest.stage = "pending") => certLoading

\* every lesson of the sections, in order
RECURSIVE Flatten(_)
Flatten(sections) ==
    IF Len(sections) = 0 THEN << >>
    ELSE Head(sections).lessons \o Flatten(Tail(sections))

IsVideo(lesson) == lesson.type = "video"
IsNotVideo(lesson) == lesson.type # "video"

\* the sum of videoDuration over a list of lessons
Seconds(lessons) == Sum([k \in DOMAIN lessons |-> VideoSeconds(lessons[k])])

\* the sum of the section durations the course-detail sidebar works out
DisplayedSeconds(c) ==
    IF c.sections = Absent THEN 0
    ELSE Sum([k \in DOMAIN c.sections[1] |-> sectionSeconds(c.sections[1][k])])

\* C39: the totalDuration virtual of the backend course is the sum of
\* videoDuration over exactly the lessons of kind video of all sections, 0 for
\* a course without sections; it falls short of the sum of the durations the
\* course-detail view works out by the durations of the text and quiz lessons
C39_TotalDurationVideoOnly ==
    derived.view = "document" =>
        /\ snapshot.sections = Absent => derived.totalDuration = 0
        /\ snapshot.sections # Absent =>
            LET lessons == Flatten(snapshot.sections[1])
            IN  /\ derived.totalDuration = Seconds(SelectSeq(lessons, IsVideo))
                /\ DisplayedSeconds(snapshot) - derived.totalDuration
                       = Seconds(SelectSeq(lessons, IsNotVideo))

\* a course with a video lesson and a lesson of another kind that carries a
\* duration: the virtual and the sum of the view differ
C39_Witness ==
    /\ derived.view = "document"
    /\ derived.totalDuration > 0
    /\ derived.totalDuration # DisplayedSeconds(snapshot)

====
